---- MODULE Spec2Model ----
(***************************************************************************)
(* Model of the archive ingestion pipeline of msg-archive:                 *)
(*   - utils/encoding.ts     fixEncoding, readFileWithProperEncoding       *)
(*   - workers/parser.worker.ts  parseThreadFile, parseThreadDirectory,    *)
(*                               the worker's message handler              *)
(* Strings are sequences of UTF-16 code units (integers 0..65535), byte    *)
(* sequences are sequences of integers 0..255.                             *)
(***************************************************************************)
EXTENDS Integers, Sequences, FiniteSets, Bags, TLC

VARIABLES
    (* --- encoding repair (utils/encoding.ts, parseThreadFile fields) --- *)
    rpc,        \* position of the repair scenario
    orig,       \* the correct text (code points) the input was corrupted from, or NoText
    text,       \* the input string handed to fixEncoding / stored in the file
    escaped,    \* TRUE when the file stores the string with JSON \uXXXX escapes
    fixed,      \* fixEncoding(text)
    fixed2,     \* fixEncoding(fixEncoding(text))
    field,      \* the field parseThreadFile outputs for a file holding text
    (* --- worker (workers/parser.worker.ts) --- *)
    wpc,          \* position of the worker's PARSE_THREAD handler
    totalFiles,   \* messageFiles.length
    fileCount,    \* fileCount
    messages,     \* messages accumulator / result.messages
    participants, \* participants
    title,        \* title
    outbox,       \* the WorkerMessages posted so far, in order
    thrown,       \* TRUE when an exception left parseThreadDirectory
    (* --- history of the worker's inputs (not program state) --- *)
    firstParsed,  \* what the first successfully parsed fragment held, or NoFragment
    okMessages,   \* bag of the timestamps of the messages of the parsed fragments
    sawFailure,   \* TRUE when some fragment failed to parse
    parsedAfterFailure, \* TRUE when a fragment parsed after another had failed
    dirListed,    \* TRUE when the directory was opened and enumerated
    (* --- utils/textEncoding.ts --- *)
    tpc,          \* position of the text-encoding scenario
    tinput,       \* the argument: a string, Null or Undefined
    tcorrect,     \* the correct text tinput is the corrupted form of, or NoText
    issuesFixed,  \* fixEncodingIssues(tinput)
    textFixed,    \* fixTextEncoding(tinput)
    hasIssues,    \* hasEncodingIssues(tinput)
    (* --- normalizeAssetUri (workers/parser.worker.ts) --- *)
    upc,          \* position of the URI scenario
    uri,          \* the argument: a string or Undefined
    normalized,   \* normalizeAssetUri(uri)
    uriLogged,    \* TRUE when UNEXPECTED_URI_FORMAT was logged
    mediaKind,    \* the field of the message the URI belongs to
    mediaUri,     \* the uri of that media reference in parseThreadFile's output
    (* --- scanForThreads (pages/ConversationList.tsx) --- *)
    spc,            \* position of scanForThreads
    archive,        \* the directory tree behind directoryHandle
    threadPromises, \* threadPromises, each with the directory it reads
    scannedRoot,    \* TRUE when the entries of the root were taken as conversations
    foundThreads,   \* the threadMetadata set by loadInitialThreads
    fullLoad,       \* the THREAD_PARSED data of the conversation opened afterwards
    (* --- the application (AppProvider, ConversationList, ConversationView) --- *)
    route,          \* ListRoute, or the decodedThreadId of the mounted ConversationView
    threads,        \* threads (Map), as the set of its values
    threadMetadata, \* threadMetadata
    threadLoadingStates, \* the keys of threadLoadingStates
    parseProgress,  \* parseProgress (Map), as a set of entries
    viewThread,     \* thread of ConversationView: {} for null, or {thread}
    listLoading,    \* loading of ConversationList
    effectDue,      \* TRUE when the effect of the mounted page has to run
    scans,          \* running scanForThreads: of the mounted list, of earlier lists
    requests,       \* the PARSE_THREAD requests the worker of the view is handling
    channel,        \* messages the worker posted that the listener has not handled
    failures,       \* directory accesses that failed so far
    visited,        \* conversations with an entry in the session history
    scanCompleted,  \* TRUE when some scanForThreads has run to its end
    (* --- the loops of parseThreadDirectory over the directory entries --- *)
    lpc,            \* position inside parseThreadDirectory
    dirEntries,     \* what dirHandle.values() yields, in enumeration order
    cursor,         \* number of entries the collecting loop has seen
    messageFiles,   \* messageFiles
    totalListed,    \* totalFiles of this listing
    parsedEntries,  \* the entries handed to parseThreadFile, in order
    progressPosts   \* data of the PROGRESS messages of the parsing loop

repairVars == <<rpc, orig, text, escaped, fixed, fixed2, field>>
workerVars == <<wpc, totalFiles, fileCount, messages, participants, title,
                outbox, thrown, firstParsed, okMessages, sawFailure,
                parsedAfterFailure, dirListed>>
textVars == <<tpc, tinput, tcorrect, issuesFixed, textFixed, hasIssues>>
uriVars == <<upc, uri, normalized, uriLogged, mediaKind, mediaUri>>
scanVars == <<spc, archive, threadPromises, scannedRoot, foundThreads, fullLoad>>
appVars == <<route, threads, threadMetadata, threadLoadingStates, parseProgress,
             viewThread, listLoading, effectDue, scans, requests, channel,
             failures, visited, scanCompleted>>
listVars == <<lpc, dirEntries, cursor, messageFiles, totalListed, parsedEntries,
              progressPosts>>
vars == <<repairVars, workerVars, textVars, uriVars, scanVars, appVars, listVars>>

\* what the actions of one scenario leave alone
nonRepairVars == <<workerVars, textVars, uriVars, scanVars, appVars, listVars>>
nonWorkerVars == <<repairVars, textVars, uriVars, scanVars, appVars, listVars>>
nonTextVars == <<repairVars, workerVars, uriVars, scanVars, appVars, listVars>>
nonUriVars == <<repairVars, workerVars, textVars, scanVars, appVars, listVars>>
nonScanVars == <<repairVars, workerVars, textVars, uriVars, listVars>>
nonListVars == <<repairVars, workerVars, textVars, uriVars, scanVars, appVars>>
\* the variables of the scan scenario the application leaves alone
appOnly == <<spc, threadPromises, scannedRoot, foundThreads, fullLoad, archive>>

(***************************************************************************)
(* Bounds                                                                  *)
(***************************************************************************)
MaxLen == 3        \* longest raw input string (code units)
MaxTextLen == 2    \* longest correct text (code points) that is corrupted
MaxFiles == 3      \* largest small directory (fragment files)
ManyFiles == 201   \* a directory with very many fragment files
MaxFragMsgs == 2   \* most messages in one fragment
MaxMsgs == 3       \* most messages over all fragments of a directory

(***************************************************************************)
(* Characters                                                              *)
(***************************************************************************)
Percent == 37      \* '%'
Quote == 34        \* '"'
Backslash == 92    \* '\'
LowerU == 117      \* 'u'
Replacement == 65533   \* U+FFFD

NoText == <<-1>>
Unset == <<-2>>
Failed == <<-3>>

\* hex digit d (0..15) as the upper-case character escape() emits
HexChar(d) == IF d < 10 THEN 48 + d ELSE 55 + d

\* value of hex digit character c, -1 when c is not a hex digit
HexVal(c) ==
    IF c >= 48 /\ c <= 57 THEN c - 48
    ELSE IF c >= 65 /\ c <= 70 THEN c - 55
    ELSE IF c >= 97 /\ c <= 102 THEN c - 87
    ELSE -1

(***************************************************************************)
(* UTF-8                                                                   *)
(***************************************************************************)
\* number of leading 1 bits of byte b
LeadingOnes(b) ==
    IF b < 128 THEN 0
    ELSE IF b < 192 THEN 1
    ELSE IF b < 224 THEN 2
    ELSE IF b < 240 THEN 3
    ELSE IF b < 248 THEN 4
    ELSE 5

\* range allowed for the byte that follows lead byte b in well-formed UTF-8
SecondLower(b) == IF b = 224 THEN 160 ELSE IF b = 240 THEN 144 ELSE 128
SecondUpper(b) == IF b = 237 THEN 159 ELSE IF b = 244 THEN 143 ELSE 191

IsContinuation(b) == b >= 128 /\ b <= 191

\* octets is a well-formed UTF-8 encoding of one code point
ValidUtf8(octets) ==
    LET n == Len(octets) b == octets[1] IN
    /\ n = LeadingOnes(b)
    /\ b >= 194 /\ b <= 244
    /\ octets[2] >= SecondLower(b) /\ octets[2] <= SecondUpper(b)
    /\ \A i \in 3..n : IsContinuation(octets[i])

\* the code point a well-formed sequence encodes
RECURSIVE ContinuationBits(_, _, _)
ContinuationBits(octets, i, acc) ==
    IF i > Len(octets) THEN acc
    ELSE ContinuationBits(octets, i + 1, acc * 64 + (octets[i] % 64))

Utf8CodePoint(octets) ==
    LET n == Len(octets) b == octets[1]
        lead == IF n = 2 THEN b % 32 ELSE IF n = 3 THEN b % 16 ELSE b % 8
    IN ContinuationBits(octets, 2, lead)

\* UTF-16 code units of code point cp
Utf16(cp) ==
    IF cp < 65536 THEN <<cp>>
    ELSE <<55296 + ((cp - 65536) \div 1024), 56320 + ((cp - 65536) % 1024)>>

\* UTF-8 bytes of code point cp
Utf8Bytes(cp) ==
    IF cp < 128 THEN <<cp>>
    ELSE IF cp < 2048 THEN <<192 + (cp \div 64), 128 + (cp % 64)>>
    ELSE IF cp < 65536 THEN
        <<224 + (cp \div 4096), 128 + ((cp \div 64) % 64), 128 + (cp % 64)>>
    ELSE <<240 + (cp \div 262144), 128 + ((cp \div 4096) % 64),
           128 + ((cp \div 64) % 64), 128 + (cp % 64)>>

(***************************************************************************)
(* escape()                                                                *)
(***************************************************************************)
\* the characters escape() leaves alone: A-Z a-z 0-9 @ * _ + - . /
EscapeUnreserved ==
    (65..90) \cup (97..122) \cup (48..57) \cup {64, 42, 95, 43, 45, 46, 47}

RECURSIVE PercentBytes(_)
PercentBytes(bytes) ==
    IF bytes = <<>> THEN <<>>
    ELSE <<Percent, HexChar(Head(bytes) \div 16), HexChar(Head(bytes) % 16)>>
         \o PercentBytes(Tail(bytes))

\* variant: encodeURIComponent in place of escape (the UTF-8 bytes of the
\* character are percent-encoded)
EscapeUnit_asEncodeURIComponent(c) ==
    IF c \in EscapeUnreserved THEN <<c>> ELSE PercentBytes(Utf8Bytes(c))

\* escape() of one code unit
EscapeUnit(c) ==
    IF c \in EscapeUnreserved THEN <<c>>
    ELSE IF c < 256 THEN <<Percent, HexChar(c \div 16), HexChar(c % 16)>>
    ELSE <<Percent, LowerU, HexChar(c \div 4096), HexChar((c \div 256) % 16),
           HexChar((c \div 16) % 16), HexChar(c % 16)>>

RECURSIVE escape(_)
escape(s) == IF s = <<>> THEN <<>> ELSE EscapeUnit(Head(s)) \o escape(Tail(s))

(***************************************************************************)
(* decodeURIComponent (ECMAScript Decode with an empty reserved set)       *)
(***************************************************************************)
\* the byte the escape %XX at s[k..k+2] denotes, -1 when there is no such escape
PercentByte(s, k) ==
    IF k + 2 > Len(s) THEN -1
    ELSE IF s[k] # Percent THEN -1
    ELSE IF HexVal(s[k + 1]) < 0 \/ HexVal(s[k + 2]) < 0 THEN -1
    ELSE 16 * HexVal(s[k + 1]) + HexVal(s[k + 2])

\* the bytes of the n escapes that start at s[k]
RECURSIVE Octets(_, _, _)
Octets(s, k, n) ==
    IF n = 0 THEN <<>> ELSE <<PercentByte(s, k)>> \o Octets(s, k + 3, n - 1)

\* Decode from position k on, R is the result so far; Failed is a URIError
RECURSIVE DecodeFrom(_, _, _)
DecodeFrom(s, k, R) ==
    IF k > Len(s) THEN R
    ELSE IF s[k] # Percent THEN DecodeFrom(s, k + 1, Append(R, s[k]))
    ELSE LET B == PercentByte(s, k)
             n == LeadingOnes(B)
             octs == Octets(s, k, n)
         IN  IF B < 0 THEN Failed
             ELSE IF n = 0 THEN DecodeFrom(s, k + 3, Append(R, B))
             ELSE IF n = 1 \/ n > 4 THEN Failed
             ELSE IF k + 3 * n - 1 > Len(s) THEN Failed
             ELSE IF \E i \in 1..n : octs[i] < 0 THEN Failed
             ELSE IF ~ValidUtf8(octs) THEN Failed
             ELSE DecodeFrom(s, k + 3 * n, R \o Utf16(Utf8CodePoint(octs)))

\* variant: form decoding, '+' stands for a space
decodeURIComponent_plusAsSpace(s) ==
    DecodeFrom([i \in 1..Len(s) |-> IF s[i] = 43 THEN 32 ELSE s[i]], 1, <<>>)

decodeURIComponent(s) == DecodeFrom(s, 1, <<>>)

(***************************************************************************)
(* new TextDecoder('utf-8').decode(new Uint8Array(bytes)): the WHATWG      *)
(* UTF-8 decoder in replacement mode; it never throws                      *)
(***************************************************************************)
\* new Uint8Array(codes): every element is taken modulo 256
RECURSIVE Uint8Array(_)
Uint8Array(codes) ==
    IF codes = <<>> THEN <<>> ELSE <<Head(codes) % 256>> \o Uint8Array(Tail(codes))

\* decoder state: cp (code point so far), needed (bytes still needed),
\* lower/upper (range allowed for the next byte)
RECURSIVE Utf8Decode(_, _, _, _, _, _)
Utf8Decode(bytes, i, cp, needed, lower, upper) ==
    IF i > Len(bytes) THEN (IF needed # 0 THEN <<Replacement>> ELSE <<>>)
    ELSE LET b == bytes[i] IN
        IF needed = 0 THEN
            IF b < 128 THEN <<b>> \o Utf8Decode(bytes, i + 1, 0, 0, 128, 191)
            ELSE IF b >= 194 /\ b <= 223
                THEN Utf8Decode(bytes, i + 1, b % 32, 1, 128, 191)
            ELSE IF b >= 224 /\ b <= 239
                THEN Utf8Decode(bytes, i + 1, b % 16, 2, SecondLower(b), SecondUpper(b))
            ELSE IF b >= 240 /\ b <= 244
                THEN Utf8Decode(bytes, i + 1, b % 8, 3, SecondLower(b), SecondUpper(b))
            ELSE <<Replacement>> \o Utf8Decode(bytes, i + 1, 0, 0, 128, 191)
        ELSE IF b < lower \/ b > upper
            \* the offending byte is put back and read again
            THEN <<Replacement>> \o Utf8Decode(bytes, i, 0, 0, 128, 191)
        ELSE IF needed = 1
            THEN Utf16(cp * 64 + (b % 64)) \o Utf8Decode(bytes, i + 1, 0, 0, 128, 191)
        ELSE Utf8Decode(bytes, i + 1, cp * 64 + (b % 64), needed - 1, 128, 191)

\* decode() drops a leading byte order mark (ignoreBOM is false)
TextDecoderDecode(bytes) ==
    IF Len(bytes) >= 3 /\ bytes[1] = 239 /\ bytes[2] = 187 /\ bytes[3] = 191
    THEN Utf8Decode(bytes, 4, 0, 0, 128, 191)
    ELSE Utf8Decode(bytes, 1, 0, 0, 128, 191)

(***************************************************************************)
(* utils/encoding.ts                                                       *)
(***************************************************************************)
fixEncoding(s) ==
    IF s = <<>> THEN <<>>
    ELSE LET primary == decodeURIComponent(escape(s)) IN
         IF primary # Failed THEN primary
         ELSE TextDecoderDecode(Uint8Array(s))

\* rawText is file.text(); the whole content is repaired before JSON parsing
readFileWithProperEncoding(rawText) == fixEncoding(rawText)

(***************************************************************************)
(* The transcript file as stored, JSON.parse of it, and the sender_name    *)
(* field parseThreadFile outputs.  The file is modelled as the JSON string *)
(* literal that holds the field; the rest of the document is ASCII.        *)
(***************************************************************************)
\* lower-case hex digit, as the export writes its \uXXXX escapes
JsonHexChar(d) == IF d < 10 THEN 48 + d ELSE 87 + d

\* one code unit inside a JSON string literal; esc: the export escapes
\* every character outside printable ASCII as \uXXXX
JsonUnit(c, esc) ==
    IF esc /\ (c >= 127 \/ c < 32 \/ c = Quote \/ c = Backslash)
    THEN <<Backslash, LowerU, JsonHexChar(c \div 4096), JsonHexChar((c \div 256) % 16),
           JsonHexChar((c \div 16) % 16), JsonHexChar(c % 16)>>
    ELSE <<c>>

RECURSIVE JsonUnits(_, _)
JsonUnits(s, esc) ==
    IF s = <<>> THEN <<>> ELSE JsonUnit(Head(s), esc) \o JsonUnits(Tail(s), esc)

\* rawText of a file whose string field is s
JsonText(s, esc) == <<Quote>> \o JsonUnits(s, esc) \o <<Quote>>

\* the character a two-character JSON escape \c stands for, -1 when invalid
JsonSimpleEscape(c) ==
    IF c = 34 THEN 34 ELSE IF c = 92 THEN 92 ELSE IF c = 47 THEN 47
    ELSE IF c = 98 THEN 8 ELSE IF c = 102 THEN 12 ELSE IF c = 110 THEN 10
    ELSE IF c = 114 THEN 13 ELSE IF c = 116 THEN 9 ELSE -1

\* body of a string literal from position k on; Failed is a SyntaxError
RECURSIVE JsonStringBody(_, _, _)
JsonStringBody(t, k, R) ==
    IF k > Len(t) THEN Failed
    ELSE IF t[k] = Quote THEN (IF k = Len(t) THEN R ELSE Failed)
    ELSE IF t[k] < 32 THEN Failed
    ELSE IF t[k] # Backslash THEN JsonStringBody(t, k + 1, Append(R, t[k]))
    ELSE IF k + 1 > Len(t) THEN Failed
    ELSE IF t[k + 1] = LowerU THEN
        IF k + 5 > Len(t) THEN Failed
        ELSE IF \E i \in 2..5 : HexVal(t[k + i]) < 0 THEN Failed
        ELSE JsonStringBody(t, k + 6,
                 Append(R, 4096 * HexVal(t[k + 2]) + 256 * HexVal(t[k + 3])
                           + 16 * HexVal(t[k + 4]) + HexVal(t[k + 5])))
    ELSE IF JsonSimpleEscape(t[k + 1]) < 0 THEN Failed
    ELSE JsonStringBody(t, k + 2, Append(R, JsonSimpleEscape(t[k + 1])))

JSONparse(t) ==
    IF Len(t) < 2 \/ t[1] # Quote THEN Failed ELSE JsonStringBody(t, 2, <<>>)

\* parseThreadFile, for the sender_name of a file that stores s: whole-file
\* repair, JSON.parse, then field-level repair; Failed when it returns null
parsedSenderName(s, esc) ==
    LET fixedText == readFileWithProperEncoding(JsonText(s, esc))
        data == JSONparse(fixedText)
    IN  IF data = Failed THEN Failed ELSE fixEncoding(data)

(***************************************************************************)
(* Inputs of the repair scenario                                           *)
(***************************************************************************)
\* code units of raw inputs: '%' '+' 'w', 0xC5 0x82 (the bytes of U+0142),
\* 0xE9 (Latin-1 e-acute), U+0142 itself, U+201A (Windows-1252 for 0x82)
Alphabet == {37, 43, 119, 197, 130, 233, 322, 8218}

\* code points of correct texts: 'w' '%' U+0142 U+00F3 U+20AC U+1F602
TextAlphabet == {119, 37, 322, 243, 8364, 128514}

\* "wlosy" with U+0142 as second letter
Wlosy == <<119, 322, 111, 115, 121>>

SeqsUpTo(S, n) == UNION {[1..m -> S] : m \in 0..n}

RawStrings == SeqsUpTo(Alphabet, MaxLen)
Texts == (SeqsUpTo(TextAlphabet, MaxTextLen) \ {<<>>}) \cup {Wlosy}

\* the corruption: t's UTF-8 bytes, each read as the character with that code
RECURSIVE Corrupt(_)
Corrupt(t) == IF t = <<>> THEN <<>> ELSE Utf8Bytes(Head(t)) \o Corrupt(Tail(t))

\* the characters Windows-1252 gives the bytes 0x80..0x9F
Windows1252High ==
    <<8364, 129, 8218, 402, 8222, 8230, 8224, 8225, 710, 8240, 352, 8249, 338,
      141, 381, 143, 144, 8216, 8217, 8220, 8221, 8226, 8211, 8212, 732, 8482,
      353, 8250, 339, 157, 382, 376>>

Windows1252(b) == IF b >= 128 /\ b <= 159 THEN Windows1252High[b - 127] ELSE b

\* the corruption of the documentation: t's UTF-8 bytes read as Windows-1252
CorruptWindows1252(t) ==
    LET bytes == Corrupt(t) IN [i \in 1..Len(bytes) |-> Windows1252(bytes[i])]

\* the texts whose Windows-1252 form differs from the byte-as-character form
Windows1252Inputs == {CorruptWindows1252(t) : t \in Texts} \ {Corrupt(t) : t \in Texts}

\* t as a string (UTF-16 code units)
RECURSIVE Utf16String(_)
Utf16String(t) == IF t = <<>> THEN <<>> ELSE Utf16(Head(t)) \o Utf16String(Tail(t))

IsAscii(s) == \A i \in 1..Len(s) : s[i] < 128

(***************************************************************************)
(* Worker values                                                           *)
(***************************************************************************)
Undefined == <<-4>>
NoFragment == [participants |-> <<>>, title |-> <<-5>>]

WorkerIdle ==
    /\ wpc = "idle"
    /\ totalFiles = 0
    /\ fileCount = 0
    /\ messages = <<>>
    /\ participants = <<>>
    /\ title = Undefined
    /\ outbox = <<>>
    /\ thrown = FALSE
    /\ firstParsed = NoFragment
    /\ okMessages = EmptyBag
    /\ sawFailure = FALSE
    /\ parsedAfterFailure = FALSE
    /\ dirListed = FALSE

Null == <<-6>>

TextOff ==
    /\ tpc = "off"
    /\ tinput = <<>>
    /\ tcorrect = NoText
    /\ issuesFixed = Unset
    /\ textFixed = Unset
    /\ hasIssues = FALSE

UriOff ==
    /\ upc = "off"
    /\ mediaKind = "none"
    /\ mediaUri = Unset
    /\ uri = <<>>
    /\ normalized = Unset
    /\ uriLogged = FALSE

\* a directory that does not exist
NoDirectory == [present |-> FALSE, entries |-> <<>>]

NoLoad == [id |-> <<>>, loaded |-> FALSE,
           data |-> [participants |-> <<>>, messages |-> <<>>, title |-> Undefined]]

ScanOff ==
    /\ spc = "off"
    /\ archive = [inbox |-> NoDirectory, e2ee |-> NoDirectory, others |-> <<>>]
    /\ threadPromises = <<>>
    /\ scannedRoot = FALSE
    /\ foundThreads = <<>>
    /\ fullLoad = NoLoad

ListingOff ==
    /\ lpc = "off"
    /\ dirEntries = <<>>
    /\ cursor = 0
    /\ messageFiles = <<>>
    /\ totalListed = 0
    /\ parsedEntries = <<>>
    /\ progressPosts = <<>>

ListRoute == <<>>  \* the route "/"

AppOff ==
    /\ route = ListRoute
    /\ threads = {}
    /\ threadMetadata = <<>>
    /\ threadLoadingStates = {}
    /\ parseProgress = {}
    /\ viewThread = {}
    /\ listLoading = FALSE
    /\ effectDue = FALSE
    /\ scans = [own |-> 0, stale |-> 0]
    /\ requests = <<>>
    /\ channel = <<>>
    /\ failures = 0
    /\ visited = {}
    /\ scanCompleted = FALSE

(***************************************************************************)
(* The repair scenario: an input string is repaired, repaired again, and   *)
(* read from a file by parseThreadFile                                     *)
(***************************************************************************)
InitRepair ==
    /\ rpc = "start"
    /\ \/ orig = NoText /\ text \in RawStrings \cup Windows1252Inputs
       \/ \E t \in Texts : orig = t /\ text = Corrupt(t)
    /\ escaped \in BOOLEAN
    /\ fixed = Unset
    /\ fixed2 = Unset
    /\ field = Unset
    /\ WorkerIdle
    /\ TextOff
    /\ UriOff
    /\ ListingOff
    /\ ScanOff
    /\ AppOff

Repair ==
    /\ rpc = "start"
    /\ fixed' = fixEncoding(text)
    /\ rpc' = "fixed"
    /\ UNCHANGED <<orig, text, escaped, fixed2, field>>
    /\ UNCHANGED nonRepairVars

RepairAgain ==
    /\ rpc = "fixed"
    /\ fixed2' = fixEncoding(fixed)
    /\ rpc' = "fixed2"
    /\ UNCHANGED <<orig, text, escaped, fixed, field>>
    /\ UNCHANGED nonRepairVars

ParseField ==
    /\ rpc = "fixed2"
    /\ field' = parsedSenderName(text, escaped)
    /\ rpc' = "parsed"
    /\ UNCHANGED <<orig, text, escaped, fixed, fixed2>>
    /\ UNCHANGED nonRepairVars

NextRepair == Repair \/ RepairAgain \/ ParseField

SpecRepair == InitRepair /\ [][NextRepair]_vars

(***************************************************************************)
(* Fragment files.  An "ok" file carries the data ThreadSchema.parse       *)
(* returns for it; of a message only timestamp_ms is kept.                 *)
(***************************************************************************)
Timestamps == {1, 3, 5}
NameP == <<80>>          \* "P"
NameL == <<197, 130>>    \* the corrupted form of U+0142
TitleA == <<65>>         \* "A"
TitleB == <<66>>         \* "B"

ParticipantLists == {<<>>, <<[name |-> NameP]>>, <<[name |-> NameL]>>}
Titles == {Undefined, <<>>, TitleA, TitleB}
MessageLists == SeqsUpTo([timestamp_ms : Timestamps], MaxFragMsgs)

OkFiles ==
    [kind : {"ok"}, participants : ParticipantLists, title : Titles,
     messages : MessageLists]
\* getFile()/text() rejects, JSON.parse throws, ThreadSchema.parse throws
BadFiles ==
    [kind : {"unreadable", "badjson", "badschema"}, participants : {<<>>},
     title : {Undefined}, messages : {<<>>}]
FragmentFiles == OkFiles \cup BadFiles

\* the files a directory of total files may hold next, acc being the
\* messages collected so far
FilesFor(total, acc) ==
    IF total > MaxFiles
    THEN {f \in FragmentFiles : f.messages = <<>>}
    ELSE {f \in FragmentFiles : Len(acc) + Len(f.messages) <= MaxMsgs}

FileCounts == (0..MaxFiles) \cup {ManyFiles}

(***************************************************************************)
(* workers/parser.worker.ts                                                *)
(***************************************************************************)
\* Array.prototype.sort with (a, b) => a.timestamp_ms - b.timestamp_ms (stable)
RECURSIVE InsertSorted(_, _)
InsertSorted(sorted, m) ==
    IF sorted = <<>> THEN <<m>>
    ELSE IF Head(sorted).timestamp_ms <= m.timestamp_ms
        THEN <<Head(sorted)>> \o InsertSorted(Tail(sorted), m)
    ELSE <<m>> \o sorted

RECURSIVE SortByTimestamp(_)
SortByTimestamp(msgs) ==
    IF msgs = <<>> THEN <<>>
    ELSE InsertSorted(SortByTimestamp(SubSeq(msgs, 1, Len(msgs) - 1)), msgs[Len(msgs)])

NullResult ==
    [status |-> "null", participants |-> <<>>, messages |-> <<>>, title |-> Undefined]

\* variant: the exception of a failing file is not caught
parseThreadFile_rethrows(f) ==
    IF f.kind # "ok" THEN [NullResult EXCEPT !.status = "threw"]
    ELSE [status |-> "parsed",
          participants |-> [i \in DOMAIN f.participants |->
                               [name |-> fixEncoding(f.participants[i].name)]],
          messages |-> SortByTimestamp(f.messages),
          title |-> IF f.title = Undefined \/ f.title = <<>>
                    THEN Undefined ELSE fixEncoding(f.title)]

parseThreadFile(f) ==
    IF f.kind # "ok" THEN NullResult
    ELSE [status |-> "parsed",
          participants |-> [i \in DOMAIN f.participants |->
                               [name |-> fixEncoding(f.participants[i].name)]],
          messages |-> SortByTimestamp(f.messages),
          title |-> IF f.title = Undefined \/ f.title = <<>>
                    THEN Undefined ELSE fixEncoding(f.title)]

\* WorkerMessages
NoData == -1
ProgressMsg(p, k, n) == [type |-> "PROGRESS", progress |-> p, parsed |-> k, total |-> n]
ParsedMsg(result) == [type |-> "THREAD_PARSED", data |-> result]
ErrorMsg == [type |-> "WORKER_ERROR"]

\* Math.round((fileCount / totalFiles) * 100); for the directory sizes of
\* FileCounts the quotient is never within rounding error of a half
progressOf(count, total) == (200 * count + total) \div (2 * total)

\* variant: the accumulated messages are not sorted
sortMessages_none(msgs) == msgs

\* messages.sort(...) of the accumulator
sortMessages(msgs) == SortByTimestamp(msgs)

\* variant: an empty conversation is reported as an error
finalPosts_emptyIsError(msgs, parts, ttl) ==
    IF msgs = <<>> THEN <<ErrorMsg, ErrorMsg>>
    ELSE <<ParsedMsg([participants |-> parts, messages |-> msgs, title |-> ttl])>>

\* the result is posted as THREAD_PARSED
finalPosts(msgs, parts, ttl) ==
    <<ParsedMsg([participants |-> parts, messages |-> msgs, title |-> ttl])>>

\* catch of parseThreadDirectory posts WORKER_ERROR and rethrows, catch of
\* the message handler posts WORKER_ERROR again
errorPosts == <<ErrorMsg, ErrorMsg>>

RepairOff ==
    /\ rpc = "off"
    /\ orig = NoText
    /\ text = <<>>
    /\ escaped = FALSE
    /\ fixed = Unset
    /\ fixed2 = Unset
    /\ field = Unset

InitWorker ==
    RepairOff /\ WorkerIdle /\ TextOff /\ UriOff /\ ScanOff /\ AppOff /\ ListingOff

\* the handler receives PARSE_THREAD and starts to walk threadPath
Receive ==
    /\ wpc = "idle"
    /\ wpc' = "navigating"
    /\ UNCHANGED <<totalFiles, fileCount, messages, participants, title, outbox,
                   thrown, firstParsed, okMessages, sawFailure,
                   parsedAfterFailure, dirListed>>
    /\ UNCHANGED nonWorkerVars

\* getDirectoryHandle rejects: the handler posts WORKER_ERROR
NavigateFail ==
    /\ wpc = "navigating"
    /\ outbox' = Append(outbox, ErrorMsg)
    /\ wpc' = "done"
    /\ UNCHANGED <<totalFiles, fileCount, messages, participants, title,
                   thrown, firstParsed, okMessages, sawFailure,
                   parsedAfterFailure, dirListed>>
    /\ UNCHANGED nonWorkerVars

\* the directory is reached: parseThreadDirectory starts, posts PROGRESS 0
\* and begins to enumerate
NavigateOk ==
    /\ wpc = "navigating"
    /\ outbox' = Append(outbox, ProgressMsg(0, NoData, NoData))
    /\ wpc' = "enumerating"
    /\ UNCHANGED <<totalFiles, fileCount, messages, participants, title,
                   thrown, firstParsed, okMessages, sawFailure,
                   parsedAfterFailure, dirListed>>
    /\ UNCHANGED nonWorkerVars

\* dirHandle.values() rejects
EnumerateFail ==
    /\ wpc = "enumerating"
    /\ outbox' = outbox \o errorPosts
    /\ thrown' = TRUE
    /\ wpc' = "done"
    /\ UNCHANGED <<totalFiles, fileCount, messages, participants, title,
                   firstParsed, okMessages, sawFailure, parsedAfterFailure,
                   dirListed>>
    /\ UNCHANGED nonWorkerVars

\* the enumeration ends with n message files; with none the loop is empty
\* and the result is posted at once
EnumerateOk ==
    /\ wpc = "enumerating"
    /\ \E n \in FileCounts :
        /\ totalFiles' = n
        /\ dirListed' = TRUE
        /\ IF n = 0
           THEN /\ messages' = sortMessages(messages)
                /\ outbox' = outbox \o finalPosts(messages', participants, title)
                /\ wpc' = "done"
           ELSE /\ wpc' = "parsing"
                /\ UNCHANGED <<messages, outbox>>
    /\ UNCHANGED <<fileCount, participants, title, thrown, firstParsed,
                   okMessages, sawFailure, parsedAfterFailure>>
    /\ UNCHANGED nonWorkerVars

SeqBag(msgs) ==
    [t \in {msgs[i].timestamp_ms : i \in 1..Len(msgs)} |->
        Cardinality({i \in 1..Len(msgs) : msgs[i].timestamp_ms = t})]

\* one iteration of the loop over messageFiles: parseThreadFile of the next
\* file settles, the result is accumulated, progress is posted; after the
\* last file the messages are sorted and the result is posted
ParseFile ==
    /\ wpc = "parsing"
    /\ \E f \in FilesFor(totalFiles, messages) :
        LET parsed == parseThreadFile(f)
            isParsed == parsed.status = "parsed"
            acc == IF isParsed THEN messages \o parsed.messages ELSE messages
            capture == isParsed /\ participants = <<>>
            parts == IF capture THEN parsed.participants ELSE participants
            ttl == IF capture THEN parsed.title ELSE title
            count == fileCount + 1
            post == ProgressMsg(progressOf(count, totalFiles), count, totalFiles)
        IN  /\ IF parsed.status = "threw"
               THEN /\ outbox' = outbox \o errorPosts
                    /\ thrown' = TRUE
                    /\ wpc' = "done"
                    /\ UNCHANGED <<fileCount, messages, participants, title>>
               ELSE /\ participants' = parts
                    /\ title' = ttl
                    /\ fileCount' = count
                    /\ thrown' = thrown
                    /\ IF count = totalFiles
                       THEN /\ messages' = sortMessages(acc)
                            /\ outbox' = Append(outbox, post)
                                         \o finalPosts(messages', parts, ttl)
                            /\ wpc' = "done"
                       ELSE /\ messages' = acc
                            /\ outbox' = Append(outbox, post)
                            /\ wpc' = wpc
            /\ firstParsed' =
                 IF f.kind = "ok" /\ firstParsed = NoFragment
                 THEN [participants |-> parsed.participants, title |-> parsed.title]
                 ELSE firstParsed
            /\ okMessages' = IF f.kind = "ok" THEN okMessages (+) SeqBag(f.messages)
                             ELSE okMessages
            /\ sawFailure' = (sawFailure \/ f.kind # "ok")
            /\ parsedAfterFailure' = (parsedAfterFailure \/ (sawFailure /\ f.kind = "ok"))
    /\ UNCHANGED <<totalFiles, dirListed>>
    /\ UNCHANGED nonWorkerVars

NextWorker ==
    \/ Receive
    \/ NavigateFail
    \/ NavigateOk
    \/ EnumerateFail
    \/ EnumerateOk
    \/ ParseFile

SpecWorker == InitWorker /\ [][NextWorker]_vars

(***************************************************************************)
(* utils/textEncoding.ts                                                   *)
(***************************************************************************)
\* !text of JavaScript for a string, null or undefined
IsFalsyText(t) == t = Null \/ t = Undefined \/ t = <<>>

\* "For now return text unchanged"
fixEncodingIssues(t) ==
    IF IsFalsyText(t) THEN t
    ELSE t

fixTextEncoding(t) ==
    IF IsFalsyText(t) THEN t
    ELSE fixEncodingIssues(t)

\* text.includes('\uFFFD')
hasEncodingIssues(t) ==
    IF IsFalsyText(t) THEN FALSE
    ELSE \E i \in 1..Len(t) : t[i] = Replacement

\* texts in which a lossy decode left U+FFFD
LossyTexts == {<<Replacement>>, <<119, Replacement>>, <<Replacement, 197, 130>>}

TextInputs == RawStrings \cup {Null, Undefined} \cup LossyTexts

InitText ==
    /\ tpc = "start"
    /\ \/ tcorrect = NoText /\ tinput \in TextInputs
       \/ \E t \in Texts : tcorrect = t /\ tinput = Corrupt(t)
    /\ issuesFixed = Unset
    /\ textFixed = Unset
    /\ hasIssues = FALSE
    /\ RepairOff
    /\ WorkerIdle
    /\ UriOff
    /\ ListingOff
    /\ ScanOff
    /\ AppOff

FixIssues ==
    /\ tpc = "start"
    /\ issuesFixed' = fixEncodingIssues(tinput)
    /\ tpc' = "issues"
    /\ UNCHANGED <<tinput, tcorrect, textFixed, hasIssues>>
    /\ UNCHANGED nonTextVars

FixText ==
    /\ tpc = "issues"
    /\ textFixed' = fixTextEncoding(tinput)
    /\ tpc' = "text"
    /\ UNCHANGED <<tinput, tcorrect, issuesFixed, hasIssues>>
    /\ UNCHANGED nonTextVars

HasIssues ==
    /\ tpc = "text"
    /\ hasIssues' = hasEncodingIssues(tinput)
    /\ tpc' = "done"
    /\ UNCHANGED <<tinput, tcorrect, issuesFixed, textFixed>>
    /\ UNCHANGED nonTextVars

NextText == FixIssues \/ FixText \/ HasIssues

SpecText == InitText /\ [][NextText]_vars

(***************************************************************************)
(* normalizeAssetUri (workers/parser.worker.ts)                            *)
(***************************************************************************)
MessagesSegment == <<109, 101, 115, 115, 97, 103, 101, 115, 47>>  \* "messages/"
StickersPrefix == <<115, 116, 105, 99, 107, 101, 114, 115, 95, 117, 115, 101, 100, 47>>  \* "stickers_used/"

\* pat occurs in s at the 0-based position i
OccursAt(s, pat, i) == i >= 0 /\ i + Len(pat) <= Len(s) /\ SubSeq(s, i + 1, i + Len(pat)) = pat

Occurrences(s, pat) == {i \in 0..Len(s) : OccursAt(s, pat, i)}

Least(S) == CHOOSE x \in S : \A y \in S : x <= y
Greatest(S) == CHOOSE x \in S : \A y \in S : x >= y

\* variant: String.prototype.lastIndexOf
indexOf_last(s, pat) ==
    IF Occurrences(s, pat) = {} THEN -1 ELSE Greatest(Occurrences(s, pat))

\* String.prototype.indexOf
indexOf(s, pat) ==
    IF Occurrences(s, pat) = {} THEN -1 ELSE Least(Occurrences(s, pat))

\* String.prototype.substring(from)
substring(s, from) == SubSeq(s, from + 1, Len(s))

\* variant: String.prototype.includes
startsWith_includes(s, pat) == Occurrences(s, pat) # {}

\* String.prototype.startsWith
startsWith(s, pat) == OccursAt(s, pat, 0)

\* !uri of JavaScript for a string or undefined
IsFalsyUri(u) == u = Undefined \/ u = <<>>

\* the value normalizeAssetUri returns
normalizeAssetUri(u) ==
    IF IsFalsyUri(u) THEN Undefined
    ELSE LET messagesIndex == indexOf(u, MessagesSegment) IN
         IF messagesIndex # -1
         THEN substring(u, messagesIndex + Len(MessagesSegment))
         ELSE u

\* TRUE when normalizeAssetUri reaches logDebug('UNEXPECTED_URI_FORMAT', ...)
logsUnexpectedUri(u) ==
    IF IsFalsyUri(u) THEN FALSE
    ELSE IF indexOf(u, MessagesSegment) # -1 THEN FALSE
    ELSE IF startsWith(u, StickersPrefix) THEN FALSE
    ELSE TRUE

MaxPieces == 3     \* most pieces an input URI is put together from

PieceActivity == <<121, 111, 117, 114, 95, 102, 97, 99, 101, 98, 111, 111, 107, 95, 97, 99, 116, 105, 118, 105, 116, 121, 47>>  \* "your_facebook_activity/"
PieceInbox == <<105, 110, 98, 111, 120, 95, 120, 47>>  \* "inbox_x/"
PiecePhoto == <<112, 104, 111, 116, 111, 115, 47, 112, 46, 106, 112, 103>>  \* "photos/p.jpg"
PieceExternal == <<104, 116, 116, 112, 115, 58, 47, 47, 120, 46, 112, 108, 47, 97, 46, 106, 112, 103>>  \* "https://x.pl/a.jpg"
PieceMessage == <<109, 101, 115, 115, 97, 103, 101>>  \* "message"
PieceS == <<115, 47>>  \* "s/"

UriPieces == {MessagesSegment, StickersPrefix, PieceActivity, PieceInbox,
              PiecePhoto, PieceExternal, PieceMessage, PieceS}

RECURSIVE Concat(_)
Concat(pieces) ==
    IF pieces = <<>> THEN <<>> ELSE Head(pieces) \o Concat(Tail(pieces))

\* "your_facebook_activity/messages/inbox_x/photos/p.jpg"
ExportUri == Concat(<<PieceActivity, MessagesSegment, PieceInbox, PiecePhoto>>)

UriInputs ==
    {Concat(ps) : ps \in SeqsUpTo(UriPieces, MaxPieces)} \cup {ExportUri, Undefined}

InitUri ==
    /\ upc = "start"
    /\ uri \in UriInputs
    /\ normalized = Unset
    /\ uriLogged = FALSE
    /\ mediaKind = "none"
    /\ mediaUri = Unset
    /\ RepairOff
    /\ WorkerIdle
    /\ TextOff
    /\ ScanOff
    /\ AppOff
    /\ ListingOff

Normalize ==
    /\ upc = "start"
    /\ normalized' = normalizeAssetUri(uri)
    /\ uriLogged' = logsUnexpectedUri(uri)
    /\ upc' = "done"
    /\ UNCHANGED <<uri, mediaKind, mediaUri>>
    /\ UNCHANGED nonUriVars

\* photos, videos, audio_files, gifs and files are arrays of references,
\* sticker is one reference; each is mapped with the same expression
MediaKinds == {"photos", "videos", "audio_files", "gifs", "files", "sticker"}

\* normalizeAssetUri(p.uri) || p.uri
mediaReferenceUri(k, u) ==
    IF IsFalsyUri(normalizeAssetUri(u)) THEN u ELSE normalizeAssetUri(u)

\* parseThreadFile maps one media reference of a validated message; the
\* schema requires uri to be a string
MapMedia ==
    /\ upc = "done"
    /\ uri # Undefined
    /\ \E k \in MediaKinds :
          /\ mediaKind' = k
          /\ mediaUri' = mediaReferenceUri(k, uri)
    /\ upc' = "mapped"
    /\ UNCHANGED <<uri, normalized, uriLogged>>
    /\ UNCHANGED nonUriVars

NextUri == Normalize \/ MapMedia

SpecUri == InitUri /\ [][NextUri]_vars

(***************************************************************************)
(* The archive on disk                                                     *)
(***************************************************************************)
MaxScanMsgs == 4   \* most messages in one fragment of a scanned conversation
MaxScanFiles == 2  \* most fragment files of a scanned conversation

Slash == 47        \* '/'
InboxName == <<105, 110, 98, 111, 120>>  \* "inbox"
E2eeName == <<101, 50, 101, 101, 95, 99, 117, 116, 111, 118, 101, 114>>  \* "e2ee_cutover"
PhotosName == <<112, 104, 111, 116, 111, 115>>  \* "photos"
VideosName == <<118, 105, 100, 101, 111, 115>>  \* "videos"
GifsName == <<103, 105, 102, 115>>  \* "gifs"
AudioName == <<97, 117, 100, 105, 111>>  \* "audio"
FilesName == <<102, 105, 108, 101, 115>>  \* "files"
DirA == <<97>>     \* "a"
DirB == <<98>>     \* "b"
DirC == <<99>>     \* "c"

\* messages with the timestamps 1..n in file order, and in reverse order
Ascending(n) == [i \in 1..n |-> [timestamp_ms |-> i]]
Descending(n) == [i \in 1..n |-> [timestamp_ms |-> n + 1 - i]]

ScanMessageLists == {Ascending(n) : n \in 0..MaxScanMsgs} \cup
                    {Descending(n) : n \in 0..MaxScanMsgs}

\* the fragment files message_N.json of a conversation directory
ScanFiles ==
    [kind : {"ok"}, participants : {<<[name |-> NameP]>>}, title : {TitleA},
     messages : ScanMessageLists] \cup BadFiles

\* a conversation directory: its fragment files in the order values() yields
\* them, and the position of message_1.json among them (0: there is none)
ConversationDirs ==
    {[files |-> fs, first |-> k] :
        fs \in SeqsUpTo(ScanFiles, MaxScanFiles), k \in 0..MaxScanFiles}
    \ {d \in [files : SeqsUpTo(ScanFiles, MaxScanFiles), first : 0..MaxScanFiles] :
        d.first > Len(d.files)}

OneMessageFile(ttl) ==
    [kind |-> "ok", participants |-> <<[name |-> NameP]>>, title |-> ttl,
     messages |-> Ascending(1)]
BadJsonFile ==
    [kind |-> "badjson", participants |-> <<>>, title |-> Undefined, messages |-> <<>>]

TitledDir == [files |-> <<OneMessageFile(TitleA)>>, first |-> 1]
UntitledDir == [files |-> <<OneMessageFile(Undefined)>>, first |-> 1]
BadJsonDir == [files |-> <<BadJsonFile>>, first |-> 1]
NoFragmentDir == [files |-> <<>>, first |-> 0]

PlainDirs == {TitledDir, UntitledDir, BadJsonDir, NoFragmentDir}

\* an entry a directory enumeration yields
DirEntry(n, d) == [kind |-> "directory", name |-> n, dir |-> d]
FileEntry(n) == [kind |-> "file", name |-> n, dir |-> NoFragmentDir]
NoEntry == [kind |-> "none", name |-> <<>>, dir |-> NoFragmentDir]

EntryChoices(n) == {NoEntry, FileEntry(n)} \cup {DirEntry(n, d) : d \in PlainDirs}

Present(entries) == SelectSeq(entries, LAMBDA e : e.kind # "none")

Directory(entries) == [present |-> TRUE, entries |-> Present(entries)]

\* archives that differ in their layout
LayoutArchives ==
    {[inbox |-> i, e2ee |-> e, others |-> o] :
        i \in {NoDirectory} \cup
              {Directory(<<x, y>>) : x \in EntryChoices(DirA), y \in EntryChoices(DirB)},
        e \in {NoDirectory} \cup {Directory(<<x>>) : x \in EntryChoices(DirA)},
        o \in {Present(<<x, y>>) :
                  x \in {NoEntry, DirEntry(PhotosName, NoFragmentDir)},
                  y \in EntryChoices(DirC)}}

\* archives of one conversation that differ in its fragments
ContentArchives ==
    {[inbox |-> Directory(<<DirEntry(DirA, d)>>), e2ee |-> NoDirectory, others |-> <<>>] :
        d \in ConversationDirs}

Archives == LayoutArchives \cup ContentArchives

\* what directoryHandle.values() yields: the grouping directories that exist
\* are directories of the root as well
RootEntries(arch) ==
    (IF arch.inbox.present THEN <<DirEntry(InboxName, NoFragmentDir)>> ELSE <<>>)
    \o (IF arch.e2ee.present THEN <<DirEntry(E2eeName, NoFragmentDir)>> ELSE <<>>)
    \o arch.others

(***************************************************************************)
(* pages/ConversationList.tsx: parseThreadMetadata, scanForThreads         *)
(***************************************************************************)
\* threadId.split('/').pop()
RECURSIVE LastSegment(_)
LastSegment(id) ==
    IF \E i \in 1..Len(id) : id[i] = Slash
    THEN LET i == CHOOSE k \in 1..Len(id) : id[k] = Slash IN
         LastSegment(SubSeq(id, i + 1, Len(id)))
    ELSE id

\* variant: the fallback carries no title
FallbackMetadata_noTitle(threadId) ==
    [id |-> threadId, participants |-> <<>>, lastMessageTime |-> 0,
     totalMessages |-> 0, title |-> Undefined]

\* the catch branch of parseThreadMetadata
FallbackMetadata(threadId) ==
    [id |-> threadId, participants |-> <<>>, lastMessageTime |-> 0,
     totalMessages |-> 0, title |-> LastSegment(threadId)]

RECURSIVE SumOfLengths(_)
SumOfLengths(fs) ==
    IF fs = <<>> THEN 0
    ELSE (IF Head(fs).kind = "ok" THEN Len(Head(fs).messages) ELSE 0)
         + SumOfLengths(Tail(fs))

\* variant: the messages of every fragment are counted
parseThreadMetadata_allFragments(dir, threadId) ==
    IF dir.first = 0 THEN FallbackMetadata(threadId)
    ELSE LET f == dir.files[dir.first] IN
         IF f.kind # "ok" THEN FallbackMetadata(threadId)
         ELSE [id |-> threadId,
               participants |-> [i \in DOMAIN f.participants |->
                                    [name |-> fixEncoding(f.participants[i].name)]],
               lastMessageTime |-> IF f.messages = <<>> THEN 0
                                   ELSE f.messages[Len(f.messages)].timestamp_ms,
               totalMessages |-> SumOfLengths(dir.files),
               title |-> IF f.title = Undefined \/ f.title = <<>>
                         THEN Undefined ELSE fixEncoding(f.title)]

\* getFileHandle('message_1.json') rejects when there is no such file; a
\* file that cannot be read, parsed or validated throws as well
parseThreadMetadata(dir, threadId) ==
    IF dir.first = 0 THEN FallbackMetadata(threadId)
    ELSE LET f == dir.files[dir.first] IN
         IF f.kind # "ok" THEN FallbackMetadata(threadId)
         ELSE [id |-> threadId,
               participants |-> [i \in DOMAIN f.participants |->
                                    [name |-> fixEncoding(f.participants[i].name)]],
               lastMessageTime |-> IF f.messages = <<>> THEN 0
                                   ELSE f.messages[Len(f.messages)].timestamp_ms,
               totalMessages |-> Len(f.messages),
               title |-> IF f.title = Undefined \/ f.title = <<>>
                         THEN Undefined ELSE fixEncoding(f.title)]

\* a call of parseThreadMetadata pushed on threadPromises
Promise(threadId, d) ==
    [id |-> threadId, dir |-> d, settled |-> FALSE, value |-> FallbackMetadata_noTitle(threadId)]

\* the promises pushed for the directories of a grouping directory
GroupPromises(group, name) ==
    IF ~group.present THEN <<>>
    ELSE LET dirs == SelectSeq(group.entries, LAMBDA e : e.kind = "directory") IN
         [i \in DOMAIN dirs |-> Promise(name \o <<Slash>> \o dirs[i].name, dirs[i].dir)]

ExcludedNames == {PhotosName, VideosName, GifsName, AudioName, FilesName}

\* the promises pushed for the directories of the root
RootPromises(arch) ==
    LET dirs == SelectSeq(RootEntries(arch),
                          LAMBDA e : e.kind = "directory" /\ e.name \notin ExcludedNames)
    IN  [i \in DOMAIN dirs |-> Promise(dirs[i].name, dirs[i].dir)]

\* variant: the root is scanned when neither grouping directory exists
scansRoot_whenNoGroup(arch, promises) == ~arch.inbox.present /\ ~arch.e2ee.present

\* if (threadPromises.length === 0)
scansRoot(arch, promises) == Len(promises) = 0

(***************************************************************************)
(* context/AppContext.tsx: loadInitialThreads                              *)
(***************************************************************************)
ToLower(s) == [i \in DOMAIN s |-> IF s[i] \in 65..90 THEN s[i] + 32 ELSE s[i]]

\* -1, 0, 1 as a is before, equal to, after b, code unit by code unit
RECURSIVE CompareUnits(_, _)
CompareUnits(a, b) ==
    IF a = <<>> /\ b = <<>> THEN 0
    ELSE IF a = <<>> THEN -1
    ELSE IF b = <<>> THEN 1
    ELSE IF Head(a) < Head(b) THEN -1
    ELSE IF Head(a) > Head(b) THEN 1
    ELSE CompareUnits(Tail(a), Tail(b))

\* String.prototype.localeCompare for strings of ASCII letters: letters
\* first compare without case, then lower case goes before upper case
localeCompare(a, b) ==
    LET primary == CompareUnits(ToLower(a), ToLower(b)) IN
    IF primary # 0 THEN primary ELSE 0 - CompareUnits(a, b)

\* (a.title || '')
TitleOrEmpty(m) == IF m.title = Undefined THEN <<>> ELSE m.title

RECURSIVE InsertByTitle(_, _)
InsertByTitle(sorted, m) ==
    IF sorted = <<>> THEN <<m>>
    ELSE IF localeCompare(TitleOrEmpty(Head(sorted)), TitleOrEmpty(m)) <= 0
        THEN <<Head(sorted)>> \o InsertByTitle(Tail(sorted), m)
    ELSE <<m>> \o sorted

RECURSIVE SortByTitle(_)
SortByTitle(ms) ==
    IF ms = <<>> THEN <<>>
    ELSE InsertByTitle(SortByTitle(SubSeq(ms, 1, Len(ms) - 1)), ms[Len(ms)])

\* the threadMetadata that loadInitialThreads sets
loadInitialThreads(initialThreads) == SortByTitle(initialThreads)

(***************************************************************************)
(* workers/parser.worker.ts: parseThreadDirectory over a whole directory   *)
(***************************************************************************)
\* the loop over messageFiles from file i on; acc holds messages,
\* participants and title collected so far
RECURSIVE parseFilesFrom(_, _, _)
parseFilesFrom(files, i, acc) ==
    IF i > Len(files) THEN acc
    ELSE LET parsed == parseThreadFile(files[i])
             isParsed == parsed.status = "parsed"
             capture == isParsed /\ acc.participants = <<>>
         IN  parseFilesFrom(files, i + 1,
                [messages |-> IF isParsed THEN acc.messages \o parsed.messages
                              ELSE acc.messages,
                 participants |-> IF capture THEN parsed.participants
                                  ELSE acc.participants,
                 title |-> IF capture THEN parsed.title ELSE acc.title])

\* the data of THREAD_PARSED for a directory with these fragment files
parseThreadDirectory(files) ==
    LET acc == parseFilesFrom(files, 1,
                   [messages |-> <<>>, participants |-> <<>>, title |-> Undefined])
    IN  [participants |-> acc.participants,
         messages |-> sortMessages(acc.messages),
         title |-> acc.title]

(***************************************************************************)
(* The scan scenario: scanForThreads walks an archive, then one of the     *)
(* conversations it found is loaded in full                                *)
(***************************************************************************)
InitScan ==
    /\ spc = "inbox"
    /\ archive \in Archives
    /\ threadPromises = <<>>
    /\ scannedRoot = FALSE
    /\ foundThreads = <<>>
    /\ fullLoad = NoLoad
    /\ RepairOff
    /\ WorkerIdle
    /\ TextOff
    /\ UriOff
    /\ ListingOff
    /\ AppOff

\* getDirectoryHandle('inbox') and the loop over its entries
ScanInbox ==
    /\ spc = "inbox"
    /\ threadPromises' = threadPromises \o GroupPromises(archive.inbox, InboxName)
    /\ spc' = "e2ee"
    /\ UNCHANGED <<archive, scannedRoot, foundThreads, fullLoad>>
    /\ UNCHANGED <<nonScanVars, appVars>>

\* getDirectoryHandle('e2ee_cutover') and the loop over its entries
ScanE2ee ==
    /\ spc = "e2ee"
    /\ threadPromises' = threadPromises \o GroupPromises(archive.e2ee, E2eeName)
    /\ spc' = "root"
    /\ UNCHANGED <<archive, scannedRoot, foundThreads, fullLoad>>
    /\ UNCHANGED <<nonScanVars, appVars>>

\* the loop over the entries of the root, when it is taken
ScanRoot ==
    /\ spc = "root"
    /\ scansRoot(archive, threadPromises)
    /\ threadPromises' = threadPromises \o RootPromises(archive)
    /\ scannedRoot' = TRUE
    /\ spc' = "parsing"
    /\ UNCHANGED <<archive, foundThreads, fullLoad>>
    /\ UNCHANGED <<nonScanVars, appVars>>

SkipRoot ==
    /\ spc = "root"
    /\ ~scansRoot(archive, threadPromises)
    /\ spc' = "parsing"
    /\ UNCHANGED <<archive, threadPromises, scannedRoot, foundThreads, fullLoad>>
    /\ UNCHANGED <<nonScanVars, appVars>>

\* one call of parseThreadMetadata settles; the calls run concurrently
SettleMetadata ==
    /\ \E i \in DOMAIN threadPromises :
        /\ ~threadPromises[i].settled
        /\ threadPromises' =
             [threadPromises EXCEPT
                 ![i].settled = TRUE,
                 ![i].value = parseThreadMetadata(threadPromises[i].dir,
                                                  threadPromises[i].id)]
    /\ UNCHANGED <<spc, archive, scannedRoot, foundThreads, fullLoad>>
    /\ UNCHANGED <<nonScanVars, appVars>>

\* Promise.all settles and loadInitialThreads stores the result
FinishScan ==
    /\ spc = "parsing"
    /\ \A i \in DOMAIN threadPromises : threadPromises[i].settled
    /\ foundThreads' =
         loadInitialThreads([i \in DOMAIN threadPromises |-> threadPromises[i].value])
    /\ spc' = "done"
    /\ UNCHANGED <<archive, threadPromises, scannedRoot, fullLoad>>
    /\ UNCHANGED <<nonScanVars, appVars>>

\* a conversation of the list is opened and the worker loads its directory
LoadConversation ==
    /\ spc = "done"
    /\ \E i \in DOMAIN threadPromises :
        fullLoad' = [id |-> threadPromises[i].id, loaded |-> TRUE,
                     data |-> parseThreadDirectory(threadPromises[i].dir.files)]
    /\ spc' = "loaded"
    /\ UNCHANGED <<archive, threadPromises, scannedRoot, foundThreads>>
    /\ UNCHANGED <<nonScanVars, appVars>>

NextScan ==
    \/ ScanInbox
    \/ ScanE2ee
    \/ ScanRoot
    \/ SkipRoot
    \/ SettleMetadata
    \/ FinishScan
    \/ LoadConversation

SpecScan == InitScan /\ [][NextScan]_vars

(***************************************************************************)
(* The application: context/AppContext.tsx (AppProvider, useMessageParser), *)
(* pages/ConversationList.tsx, pages/ConversationView.tsx and the worker   *)
(* each ConversationView creates                                           *)
(***************************************************************************)
MaxScans == 2      \* most calls of scanForThreads running at once
MaxFailures == 1   \* most directory accesses that fail in one session

TwoFragmentDir ==
    [files |-> <<[kind |-> "ok", participants |-> <<[name |-> NameP]>>,
                  title |-> TitleA, messages |-> Descending(2)],
                 [kind |-> "ok", participants |-> <<[name |-> NameP]>>,
                  title |-> TitleA, messages |-> Ascending(1)]>>,
     first |-> 1]

\* the archives the application is opened on: inbox/a and inbox/b
\* a folder that holds no conversation directory
EmptyArchive == [inbox |-> NoDirectory, e2ee |-> NoDirectory, others |-> <<>>]

AppArchives ==
    {[inbox |-> Directory(<<DirEntry(DirA, d), DirEntry(DirB, TwoFragmentDir)>>),
      e2ee |-> NoDirectory, others |-> <<>>] :
        d \in {TwoFragmentDir, BadJsonDir, NoFragmentDir}}
    \cup {EmptyArchive}

\* threadPromises at the end of the three loops of scanForThreads
ScanPromises(arch) ==
    LET grouped == GroupPromises(arch.inbox, InboxName)
                   \o GroupPromises(arch.e2ee, E2eeName)
    IN  IF scansRoot(arch, grouped) THEN grouped \o RootPromises(arch) ELSE grouped

\* foundThreads of scanForThreads
scanForThreads(arch) ==
    LET promises == ScanPromises(arch) IN
    [i \in DOMAIN promises |-> parseThreadMetadata(promises[i].dir, promises[i].id)]

ThreadIds(arch) == {ScanPromises(arch)[i].id : i \in DOMAIN ScanPromises(arch)}

\* the fragment files of the directory threadPath leads to
FilesOf(arch, threadPath) ==
    LET promises == ScanPromises(arch)
        i == CHOOSE k \in DOMAIN promises : promises[k].id = threadPath
    IN  promises[i].dir.files

\* WorkerMessages, with the threadId they carry
Progress(t, p) == [type |-> "PROGRESS", threadId |-> t, progress |-> p]
ThreadParsed(t, result) ==
    [type |-> "THREAD_PARSED", threadId |-> t,
     data |-> [threadId |-> t, participants |-> result.participants,
               messages |-> result.messages, title |-> result.title]]
WorkerError(t) == [type |-> "WORKER_ERROR", threadId |-> t]

\* a PARSE_THREAD the worker is handling
Request(t) == [threadId |-> t, stage |-> "navigating", fileCount |-> 0]

RemoveAt(s, i) == SubSeq(s, 1, i - 1) \o SubSeq(s, i + 1, Len(s))

\* thread.messages[thread.messages.length - 1]?.timestamp_ms || 0
LastTimestamp(msgs) == IF msgs = <<>> THEN 0 ELSE msgs[Len(msgs)].timestamp_ms

RECURSIVE InsertByTimeDescending(_, _)
InsertByTimeDescending(sorted, m) ==
    IF sorted = <<>> THEN <<m>>
    ELSE IF Head(sorted).lastMessageTime >= m.lastMessageTime
        THEN <<Head(sorted)>> \o InsertByTimeDescending(Tail(sorted), m)
    ELSE <<m>> \o sorted

RECURSIVE SortByTimeDescending(_)
SortByTimeDescending(ms) ==
    IF ms = <<>> THEN <<>>
    ELSE InsertByTimeDescending(SortByTimeDescending(SubSeq(ms, 1, Len(ms) - 1)),
                                ms[Len(ms)])

\* the metadata addThread derives from a ParsedThread
MetadataOf(thread) ==
    [id |-> thread.threadId,
     participants |-> thread.participants,
     lastMessageTime |-> LastTimestamp(thread.messages),
     totalMessages |-> Len(thread.messages),
     title |-> thread.title]

\* the threadMetadata addThread sets
addThreadMetadata(prev, thread) ==
    LET metadata == MetadataOf(thread)
        existing == {i \in DOMAIN prev : prev[i].id = metadata.id}
        newMetaArray ==
            IF existing # {}
            THEN [prev EXCEPT ![Least(existing)] = metadata]
            ELSE Append(prev, metadata)
    IN  SortByTimeDescending(newMetaArray)

\* the threads map addThread sets
addThreadThreads(prev, thread) ==
    {x \in prev : x.threadId # thread.threadId} \cup {thread}

\* the parseProgress map setParseProgress sets
setParseProgress(prev, t, p) ==
    IF p >= 100 THEN {x \in prev : x.threadId # t}
    ELSE {x \in prev : x.threadId # t} \cup {[threadId |-> t, progress |-> p]}


\* thread.participants.map((p) => p.name).join(', ')
RECURSIVE JoinNames(_)
JoinNames(ps) ==
    IF ps = <<>> THEN <<>>
    ELSE IF Len(ps) = 1 THEN ps[1].name
    ELSE ps[1].name \o <<44, 32>> \o JoinNames(Tail(ps))

ConversationLabel == <<67, 111, 110, 118, 101, 114, 115, 97, 116, 105, 111, 110>>  \* 'Conversation'

\* the heading of ConversationView: thread.title || participantNames || 'Conversation'
viewTitle(thread) ==
    IF thread.title # Undefined /\ thread.title # <<>> THEN thread.title
    ELSE IF JoinNames(thread.participants) # <<>> THEN JoinNames(thread.participants)
    ELSE ConversationLabel

\* the folder is picked; the browser shows "/" or the conversation the URL
\* names
InitApp ==
    /\ archive \in AppArchives
    /\ route \in {ListRoute} \cup ThreadIds(archive)
    /\ threads = {}
    /\ threadMetadata = <<>>
    /\ threadLoadingStates = {}
    /\ parseProgress = {}
    /\ viewThread = {}
    /\ listLoading = (route = ListRoute)
    /\ effectDue = TRUE
    /\ scans = [own |-> 0, stale |-> 0]
    /\ requests = <<>>
    /\ channel = <<>>
    /\ failures = 0
    /\ visited = IF route = ListRoute THEN {} ELSE {route}
    /\ scanCompleted = FALSE
    /\ spc = "off"
    /\ threadPromises = <<>>
    /\ scannedRoot = FALSE
    /\ foundThreads = <<>>
    /\ fullLoad = NoLoad
    /\ RepairOff
    /\ WorkerIdle
    /\ TextOff
    /\ UriOff
    /\ ListingOff

\* the effect of ConversationList: scan when threadMetadata is empty
ListEffect ==
    /\ route = ListRoute
    /\ effectDue
    /\ IF threadMetadata = <<>>
       THEN /\ scans.own + scans.stale < MaxScans
            /\ listLoading' = TRUE
            /\ scans' = [scans EXCEPT !.own = @ + 1]
       ELSE /\ listLoading' = FALSE
            /\ scans' = scans
    /\ effectDue' = FALSE
    /\ UNCHANGED <<route, threads, threadMetadata, threadLoadingStates,
                   parseProgress, viewThread, requests, channel, failures, visited,
                   scanCompleted>>
    /\ UNCHANGED <<appOnly, nonScanVars>>

\* a scanForThreads ends: loadInitialThreads, then setLoading(false) of the
\* list that started it
ScanDone ==
    /\ \E mine \in BOOLEAN :
        /\ IF mine THEN scans.own > 0 ELSE scans.stale > 0
        /\ scans' = IF mine THEN [scans EXCEPT !.own = @ - 1]
                    ELSE [scans EXCEPT !.stale = @ - 1]
        /\ listLoading' = IF mine THEN FALSE ELSE listLoading
    /\ threadMetadata' = loadInitialThreads(scanForThreads(archive))
    /\ effectDue' = (effectDue \/ route = ListRoute)
    /\ scanCompleted' = TRUE
    /\ UNCHANGED <<route, threads, threadLoadingStates, parseProgress,
                   viewThread, requests, channel, failures, visited>>
    /\ UNCHANGED <<appOnly, nonScanVars>>

\* ConversationView mounts for t: a new worker, no thread shown yet
OpenView(t) ==
    /\ route' = t
    /\ viewThread' = {}
    /\ requests' = <<>>
    /\ channel' = <<>>
    /\ effectDue' = TRUE
    /\ listLoading' = FALSE
    /\ scans' = [own |-> 0, stale |-> scans.own + scans.stale]
    /\ visited' = visited \cup {t}
    /\ UNCHANGED <<threads, threadMetadata, threadLoadingStates, parseProgress,
                   failures, scanCompleted>>
    /\ UNCHANGED <<appOnly, nonScanVars>>

\* a conversation of the rendered list is clicked
OpenByClick ==
    /\ route = ListRoute
    /\ ~effectDue
    /\ ~listLoading
    /\ \E i \in DOMAIN threadMetadata : OpenView(threadMetadata[i].id)

\* the browser goes back or forward to a conversation opened before
OpenByHistory ==
    /\ route = ListRoute
    /\ ~effectDue
    /\ \E t \in visited : OpenView(t)

\* variant: the store is not consulted
getThread_miss(store, threadId) == {}

\* threads.get(threadId): {} for undefined, or {thread}
getThread(store, threadId) == {x \in store : x.threadId = threadId}

\* the effect of ConversationView: show the stored thread, or start to load
ViewEffect ==
    /\ route # ListRoute
    /\ effectDue
    /\ LET existing == getThread(threads, route) IN
       IF existing # {}
       THEN /\ viewThread' = existing
            /\ UNCHANGED <<threadLoadingStates, requests>>
       ELSE IF route \notin threadLoadingStates
       THEN /\ threadLoadingStates' = threadLoadingStates \cup {route}
            /\ requests' = Append(requests, Request(route))
            /\ UNCHANGED viewThread
       ELSE UNCHANGED <<viewThread, threadLoadingStates, requests>>
    /\ effectDue' = FALSE
    /\ UNCHANGED <<route, threads, threadMetadata, parseProgress, listLoading,
                   scans, channel, failures, visited, scanCompleted>>
    /\ UNCHANGED <<appOnly, nonScanVars>>

\* handleBack, or the browser's back button: ConversationView unmounts, the
\* cleanup of useMessageParser terminates its worker, ConversationList mounts
LeaveView ==
    /\ route # ListRoute
    /\ ~effectDue
    /\ threadMetadata # <<>> \/ scans.own + scans.stale < MaxScans
    /\ route' = ListRoute
    /\ viewThread' = {}
    /\ requests' = <<>>
    /\ channel' = <<>>
    /\ listLoading' = TRUE
    /\ effectDue' = TRUE
    /\ UNCHANGED <<threads, threadMetadata, threadLoadingStates, parseProgress,
                   scans, failures, visited, scanCompleted>>
    /\ UNCHANGED <<appOnly, nonScanVars>>

\* one step of a request: what it posts before a result, whether it then
\* posts the result, and the request after it (stage "done" when its
\* handler has returned); failed tells whether the directory access of this
\* step rejects
WorkerStepOf(r, total, failed) ==
    IF r.stage = "navigating"
    THEN IF failed
         THEN [posts |-> <<WorkerError(r.threadId)>>, result |-> FALSE,
               next |-> [r EXCEPT !.stage = "done"]]
         ELSE [posts |-> <<Progress(r.threadId, 0)>>, result |-> FALSE,
               next |-> [r EXCEPT !.stage = "enumerating"]]
    ELSE IF r.stage = "enumerating"
    THEN IF failed
         THEN [posts |-> <<WorkerError(r.threadId), WorkerError(r.threadId)>>,
               result |-> FALSE, next |-> [r EXCEPT !.stage = "done"]]
         ELSE IF total = 0
         THEN [posts |-> <<>>, result |-> TRUE, next |-> [r EXCEPT !.stage = "done"]]
         ELSE [posts |-> <<>>, result |-> FALSE, next |-> [r EXCEPT !.stage = "parsing"]]
    ELSE LET count == r.fileCount + 1
             post == Progress(r.threadId, progressOf(count, total))
         IN  IF count = total
             THEN [posts |-> <<post>>, result |-> TRUE,
                   next |-> [r EXCEPT !.stage = "done", !.fileCount = count]]
             ELSE [posts |-> <<post>>, result |-> FALSE,
                   next |-> [r EXCEPT !.fileCount = count]]

\* the worker runs one of its handlers up to its next await
WorkerStep ==
    /\ \E i \in DOMAIN requests, failed \in BOOLEAN :
        LET r == requests[i]
            files == FilesOf(archive, r.threadId)
            step == WorkerStepOf(r, Len(files), failed)
        IN  /\ failed => (r.stage \in {"navigating", "enumerating"}
                          /\ failures < MaxFailures)
            /\ failures' = IF failed THEN failures + 1 ELSE failures
            /\ channel' =
                 IF step.result
                 THEN channel \o step.posts
                      \o <<ThreadParsed(r.threadId, parseThreadDirectory(files))>>
                 ELSE channel \o step.posts
            /\ requests' = IF step.next.stage = "done" THEN RemoveAt(requests, i)
                           ELSE [requests EXCEPT ![i] = step.next]
    /\ UNCHANGED <<route, threads, threadMetadata, threadLoadingStates,
                   parseProgress, viewThread, listLoading, effectDue, scans, visited,
                   scanCompleted>>
    /\ UNCHANGED <<appOnly, nonScanVars>>

\* the listener of useMessageParser handles the next message of the worker
Deliver ==
    /\ channel # <<>>
    /\ channel' = Tail(channel)
    /\ LET message == Head(channel) IN
       IF message.type = "THREAD_PARSED"
       THEN /\ threads' = addThreadThreads(threads, message.data)
            /\ threadMetadata' = addThreadMetadata(threadMetadata, message.data)
            /\ threadLoadingStates' = threadLoadingStates \ {message.data.threadId}
            /\ viewThread' = IF message.data.threadId = route THEN {message.data}
                             ELSE viewThread
            /\ effectDue' = TRUE
            /\ UNCHANGED parseProgress
       ELSE IF message.type = "PROGRESS"
       THEN /\ parseProgress' = setParseProgress(parseProgress, message.threadId,
                                                 message.progress)
            /\ UNCHANGED <<threads, threadMetadata, threadLoadingStates,
                           viewThread, effectDue>>
       ELSE /\ threadLoadingStates' = threadLoadingStates \ {message.threadId}
            /\ effectDue' = TRUE
            /\ UNCHANGED <<threads, threadMetadata, parseProgress, viewThread>>
    /\ UNCHANGED <<route, listLoading, scans, requests, failures, visited,
                   scanCompleted>>
    /\ UNCHANGED <<appOnly, nonScanVars>>

NextApp ==
    \/ ListEffect
    \/ ScanDone
    \/ OpenByClick
    \/ OpenByHistory
    \/ ViewEffect
    \/ LeaveView
    \/ WorkerStep
    \/ Deliver

SpecApp == InitApp /\ [][NextApp]_vars

(***************************************************************************)
(* parseThreadDirectory: collecting the message files of a directory       *)
(* (workers/parser.worker.ts)                                              *)
(***************************************************************************)
MaxEntries == 3    \* most entries in the listed directory

MessagePrefix == <<109, 101, 115, 115, 97, 103, 101, 95>>  \* "message_"
JsonExtension == <<46, 106, 115, 111, 110>>  \* ".json"
TxtExtension == <<46, 116, 120, 116>>  \* ".txt"

\* String.prototype.endsWith
endsWith(s, pat) == OccursAt(s, pat, Len(s) - Len(pat))

ListedFile(n) == [kind |-> "file", name |-> n]
ListedDirectory(n) == [kind |-> "directory", name |-> n]

\* message_1.json, message_2.json, message_10.json
Fragment1 == ListedFile(MessagePrefix \o <<49>> \o JsonExtension)
Fragment2 == ListedFile(MessagePrefix \o <<50>> \o JsonExtension)
Fragment10 == ListedFile(MessagePrefix \o <<49, 48>> \o JsonExtension)
\* message_x.json, message_.json, message_1.txt, xmessage_1.json
FragmentX == ListedFile(MessagePrefix \o <<120>> \o JsonExtension)
FragmentBare == ListedFile(MessagePrefix \o JsonExtension)
FragmentTxt == ListedFile(MessagePrefix \o <<49>> \o TxtExtension)
FragmentOffset == ListedFile(<<120>> \o MessagePrefix \o <<49>> \o JsonExtension)
\* directories message_3.json and photos
FragmentNamedDirectory == ListedDirectory(MessagePrefix \o <<51>> \o JsonExtension)
PhotosDirectory == ListedDirectory(PhotosName)

EntryPool == {Fragment1, Fragment2, Fragment10, FragmentX, FragmentBare,
              FragmentTxt, FragmentOffset, FragmentNamedDirectory,
              PhotosDirectory}

\* a directory holds no two entries of one name
Listings ==
    {l \in SeqsUpTo(EntryPool, MaxEntries) :
        \A i, j \in DOMAIN l : i # j => l[i].name # l[j].name}

\* variant: the kind of the entry is not looked at
isMessageFile_anyKind(entry) ==
    /\ startsWith(entry.name, MessagePrefix)
    /\ endsWith(entry.name, JsonExtension)

\* the condition of the collecting loop
isMessageFile(entry) ==
    /\ entry.kind = "file"
    /\ startsWith(entry.name, MessagePrefix)
    /\ endsWith(entry.name, JsonExtension)

InitListing ==
    /\ lpc = "collecting"
    /\ dirEntries \in Listings
    /\ cursor = 0
    /\ messageFiles = <<>>
    /\ totalListed = 0
    /\ parsedEntries = <<>>
    /\ progressPosts = <<>>
    /\ RepairOff
    /\ WorkerIdle
    /\ TextOff
    /\ UriOff
    /\ ScanOff
    /\ AppOff

\* one iteration of for await (const entry of dirHandle.values())
CollectEntry ==
    /\ lpc = "collecting"
    /\ cursor < Len(dirEntries)
    /\ cursor' = cursor + 1
    /\ messageFiles' = IF isMessageFile(dirEntries[cursor + 1])
                       THEN Append(messageFiles, dirEntries[cursor + 1])
                       ELSE messageFiles
    /\ UNCHANGED <<lpc, dirEntries, totalListed, parsedEntries, progressPosts>>
    /\ UNCHANGED nonListVars

\* the enumeration ends: totalFiles = messageFiles.length
EndCollect ==
    /\ lpc = "collecting"
    /\ cursor = Len(dirEntries)
    /\ totalListed' = Len(messageFiles)
    /\ lpc' = IF messageFiles = <<>> THEN "done" ELSE "parsing"
    /\ UNCHANGED <<dirEntries, cursor, messageFiles, parsedEntries, progressPosts>>
    /\ UNCHANGED nonListVars

\* one iteration of for (const fileHandle of messageFiles)
ParseListed ==
    /\ lpc = "parsing"
    /\ parsedEntries' = Append(parsedEntries, messageFiles[Len(parsedEntries) + 1])
    /\ progressPosts' = Append(progressPosts,
                               [parsed |-> Len(parsedEntries'), total |-> totalListed])
    /\ lpc' = IF Len(parsedEntries') = totalListed THEN "done" ELSE "parsing"
    /\ UNCHANGED <<dirEntries, cursor, messageFiles, totalListed>>
    /\ UNCHANGED nonListVars

NextListing == CollectEntry \/ EndCollect \/ ParseListed

SpecListing == InitListing /\ [][NextListing]_vars

(***************************************************************************)
(* Properties of repair                                                    *)
(***************************************************************************)
\* bytes from position i on are well-formed UTF-8
RECURSIVE WellFormedFrom(_, _)
WellFormedFrom(b, i) ==
    IF i > Len(b) THEN TRUE
    ELSE LET n == LeadingOnes(b[i]) IN
         IF n = 0 THEN WellFormedFrom(b, i + 1)
         ELSE /\ n \in 2..4
              /\ i + n - 1 <= Len(b)
              /\ ValidUtf8(SubSeq(b, i, i + n - 1))
              /\ WellFormedFrom(b, i + n)

\* s has a code unit above 255, or its code units read as bytes are not UTF-8
NotRepairable(s) ==
    \/ \E i \in 1..Len(s) : s[i] > 255
    \/ ~WellFormedFrom(s, 1)

\* C1: repair is idempotent: repairing the repaired string changes nothing,
\* also when the first repair yields code units above 255.
C1_Idempotent == rpc \in {"fixed2", "parsed"} => fixed2 = fixed

\* C2: when the input has a code unit above 255 or is not valid UTF-8 when
\* read as bytes, repair returns the input unchanged.
C2_FallbackReturnsInput == (rpc # "start" /\ NotRepairable(text)) => fixed = text

\* C3: when the file literally holds the corrupted form of a text, whole-file
\* repair restores it and the field-level repair leaves it alone: the output
\* field is the correct text.
C3_FieldRepairRedundant ==
    (rpc = "parsed" /\ orig # NoText /\ ~escaped) => field = Utf16String(orig)

\* C4: repair reverses the corruption: applied to the UTF-8 bytes of a text,
\* each read as one character, it returns the text.
C4_RepairReverses == (rpc # "start" /\ orig # NoText) => fixed = Utf16String(orig)

C4_Witness ==
    /\ rpc # "start"
    /\ orig = Wlosy
    /\ text = <<119, 197, 130, 111, 115, 121>>
    /\ fixed = <<119, 322, 111, 115, 121>>

\* C5: repair is a no-op on pure ASCII, the empty string and strings with
\* '%' or '+' included.
C5_AsciiNoOp == (rpc # "start" /\ IsAscii(text)) => fixed = text

C5_Witness ==
    /\ rpc # "start"
    /\ text = <<119, 37, 43>>
    /\ fixed = <<119, 37, 43>>

\* C22: repair restores a text whose UTF-8 bytes were read as Windows-1252,
\* where the bytes 0x80..0x9F appear as characters above code 255.
C22_RepairsWindows1252 ==
    rpc # "start" =>
        \A t \in Texts :
            (text = CorruptWindows1252(t) /\ text \in Windows1252Inputs)
                => fixed = Utf16String(t)

(***************************************************************************)
(* Properties of assemble (parseThreadDirectory)                           *)
(***************************************************************************)
IsSorted(msgs) ==
    \A i \in 1..(Len(msgs) - 1) : msgs[i].timestamp_ms <= msgs[i + 1].timestamp_ms

NoErrorPosted == \A i \in 1..Len(outbox) : outbox[i].type # "WORKER_ERROR"

ResultPosted == outbox # <<>> /\ outbox[Len(outbox)].type = "THREAD_PARSED"

Delivered == outbox[Len(outbox)].data

\* C6: the delivered messages are sorted ascending by timestamp and there are
\* as many as the fragments that parsed held together.
C6_SortedAndCounted ==
    ResultPosted =>
        /\ IsSorted(Delivered.messages)
        /\ Len(Delivered.messages) = BagCardinality(okMessages)

C6_Witness ==
    /\ wpc = "done"
    /\ ResultPosted
    /\ sawFailure
    /\ fileCount = 3
    /\ Delivered.messages = <<[timestamp_ms |-> 1], [timestamp_ms |-> 3], [timestamp_ms |-> 5]>>

\* C7: once the directory is enumerated, a failing fragment aborts nothing:
\* no exception and no WORKER_ERROR ever, every file is processed, and the
\* load ends with THREAD_PARSED holding the messages of all parsed fragments.
C7_FailedFragmentSkipped ==
    dirListed =>
        /\ ~thrown
        /\ NoErrorPosted
        /\ wpc = "done" =>
            /\ fileCount = totalFiles
            /\ ResultPosted
            /\ SeqBag(Delivered.messages) = okMessages

C7_Witness ==
    /\ wpc = "done"
    /\ parsedAfterFailure
    /\ fileCount = totalFiles
    /\ ResultPosted
    /\ Delivered.messages # <<>>

\* C8: once a fragment has parsed, participants and title are those of that
\* first parsed fragment, whatever its participant list.
C8_FirstFragmentWins ==
    firstParsed # NoFragment =>
        /\ participants = firstParsed.participants
        /\ title = firstParsed.title

\* C9: a progress report has value 100 only if it follows the last fragment.
C9_HundredOnlyAtEnd ==
    \A i \in 1..Len(outbox) :
        (outbox[i].type = "PROGRESS" /\ outbox[i].progress = 100)
            => outbox[i].parsed = totalFiles

\* C10: a directory with no fragment file, or none that parses, ends with
\* THREAD_PARSED holding no messages, and no WORKER_ERROR.
C10_EmptyConversation ==
    (wpc = "done" /\ dirListed /\ firstParsed = NoFragment) =>
        /\ ResultPosted
        /\ Delivered.messages = <<>>
        /\ NoErrorPosted
        /\ ~thrown

C10_Witness ==
    /\ wpc = "done"
    /\ dirListed
    /\ totalFiles = 2
    /\ fileCount = 2
    /\ sawFailure
    /\ firstParsed = NoFragment
    /\ ResultPosted
    /\ Delivered.messages = <<>>

\* the positions of the terminal messages of the request in outbox
TerminalPosts ==
    {i \in 1..Len(outbox) : outbox[i].type \in {"THREAD_PARSED", "WORKER_ERROR"}}

\* C29: a handled PARSE_THREAD produces exactly one terminal message, one
\* THREAD_PARSED or one WORKER_ERROR, posted after all its PROGRESS
\* messages, also when the directory cannot be opened or enumerated.
C29_OneTerminalMessage ==
    /\ TerminalPosts # {} => wpc = "done"
    /\ wpc = "done" => TerminalPosts = {Len(outbox)}

(***************************************************************************)
(* Properties of normalizeAssetUri                                         *)
(***************************************************************************)
\* C16: for a URI that contains "messages/" the result is exactly the text
\* after the first occurrence of "messages/"; the export form
\* "your_facebook_activity/messages/inbox_x/photos/p.jpg" gives
\* "inbox_x/photos/p.jpg".
C16_AfterFirstSegment ==
    (upc = "done" /\ uri # Undefined) =>
        /\ \A i \in 0..Len(uri) :
              (/\ OccursAt(uri, MessagesSegment, i)
               /\ \A j \in 0..(i - 1) : ~OccursAt(uri, MessagesSegment, j))
              => normalized = SubSeq(uri, i + 10, Len(uri))
        /\ uri = ExportUri => normalized = PieceInbox \o PiecePhoto

C16_Witness ==
    /\ upc = "done"
    /\ uri = ExportUri
    /\ normalized = <<105, 110, 98, 111, 120, 95, 120, 47,
                      112, 104, 111, 116, 111, 115, 47, 112, 46, 106, 112, 103>>

C16_WitnessTwice ==
    /\ upc = "done"
    /\ uri = MessagesSegment \o PieceInbox \o MessagesSegment
    /\ normalized = PieceInbox \o MessagesSegment

\* C17: a non-empty URI without "messages/" is returned unchanged, and
\* UNEXPECTED_URI_FORMAT is logged exactly when it does not start with
\* "stickers_used/"; a result is always returned.
C17_UnchangedAndLogged ==
    (upc = "done" /\ uri # Undefined /\ uri # <<>>
        /\ \A i \in 0..Len(uri) : ~OccursAt(uri, MessagesSegment, i)) =>
        /\ normalized = uri
        /\ uriLogged <=> ~(Len(uri) >= 14 /\ SubSeq(uri, 1, 14) = StickersPrefix)

C17_Witness ==
    /\ upc = "done"
    /\ uri = PieceInbox \o StickersPrefix \o PiecePhoto
    /\ normalized = uri
    /\ uriLogged

C17_WitnessSticker ==
    /\ upc = "done"
    /\ uri = StickersPrefix \o PiecePhoto
    /\ normalized = uri
    /\ ~uriLogged

\* C23: for every media reference (photos, videos, audio files, gifs, files,
\* sticker) and every raw URI string, those whose normalized form is the
\* empty string included, the output uri is the normalized form of the raw
\* uri; the raw export-relative form is not retained.
C23_OutputNormalized ==
    upc = "mapped" =>
        mediaUri = (IF normalized = Undefined THEN <<>> ELSE normalized)


(***************************************************************************)
\* C20: fixEncodingIssues and fixTextEncoding replace the corrupted form of
\* a text (its UTF-8 bytes read as characters) with the text, and return
\* the empty string, null and undefined unchanged.
C20_MojibakeReplaced ==
    tpc = "done" =>
        /\ tcorrect # NoText =>
              /\ issuesFixed = Utf16String(tcorrect)
              /\ textFixed = Utf16String(tcorrect)
        /\ IsFalsyText(tinput) =>
              /\ issuesFixed = tinput
              /\ textFixed = tinput

\* the corrupted form of a text with a character outside ASCII
HoldsMojibake == tcorrect # NoText /\ \E i \in 1..Len(tcorrect) : tcorrect[i] >= 128

\* a correctly encoded text: plain ASCII, or a text as it is written
CorrectlyEncoded ==
    /\ tcorrect = NoText
    /\ ~IsFalsyText(tinput)
    /\ \/ IsAscii(tinput)
       \/ \E t \in Texts : tinput = Utf16String(t)

\* C21: hasEncodingIssues returns true for every text that holds the
\* corrupted form of a character outside ASCII, and false for correctly
\* encoded text and plain ASCII.
C21_MojibakeDetected ==
    tpc = "done" =>
        /\ HoldsMojibake => hasIssues
        /\ CorrectlyEncoded => ~hasIssues

(***************************************************************************)
(* Properties of the scan                                                  *)
(***************************************************************************)
ScanFinished == spc \in {"done", "loaded"}

\* the directories among the entries of a grouping directory
DirectoriesOf(group) == {e \in {group.entries[i] : i \in DOMAIN group.entries} : e.kind = "directory"}

\* the directories of the root that are not asset folders
RootDirectories ==
    {e \in {RootEntries(archive)[i] : i \in DOMAIN RootEntries(archive)} :
        e.kind = "directory" /\ e.name \notin ExcludedNames}

\* the entries of the scan's output with this id
Found(id) == {j \in DOMAIN foundThreads : foundThreads[j].id = id}

FirstFragmentParses(d) == d.first > 0 /\ d.files[d.first].kind = "ok"

\* C12: the scan counts the messages of message_1.json only, the full load
\* those of every fragment: fragments of 3 and 4 messages give 3 and 7.
C12_FirstFragmentCount ==
    \A i \in DOMAIN threadPromises :
        LET p == threadPromises[i]
            d == p.dir
        IN  /\ (ScanFinished /\ FirstFragmentParses(d)) =>
                  \A j \in Found(p.id) :
                      foundThreads[j].totalMessages = Len(d.files[d.first].messages)
            /\ (fullLoad.loaded /\ fullLoad.id = p.id) =>
                  Len(fullLoad.data.messages) = SumOfLengths(d.files)

C12_Witness ==
    /\ spc = "loaded"
    /\ Len(threadPromises) = 1
    /\ threadPromises[1].dir.first = 1
    /\ Len(threadPromises[1].dir.files) = 2
    /\ Len(threadPromises[1].dir.files[1].messages) = 3
    /\ Len(threadPromises[1].dir.files[2].messages) = 4
    /\ foundThreads[1].totalMessages = 3
    /\ Len(fullLoad.data.messages) = 7

\* the greatest timestamp among msgs, 0 when there is none
GreatestTimestamp(msgs) ==
    IF msgs = <<>> THEN 0
    ELSE Greatest({msgs[i].timestamp_ms : i \in DOMAIN msgs})

\* C27: the lastMessageTime the scan reports for a conversation is the
\* greatest timestamp among the messages of its first fragment (0 when it
\* has none), whatever the order of the messages inside the file.
C27_LastActivityTime ==
    ScanFinished =>
        \A i \in DOMAIN threadPromises :
            LET p == threadPromises[i]
                d == p.dir
            IN  FirstFragmentParses(d) =>
                    \A j \in Found(p.id) :
                        foundThreads[j].lastMessageTime
                            = GreatestTimestamp(d.files[d.first].messages)

\* C14: the scan's output has exactly one entry per conversation directory
\* it walked over, and a directory whose message_1.json is missing,
\* unreadable or invalid is listed with its name as title, no messages and
\* no participants.
C14_NothingHidden ==
    ScanFinished =>
        LET Listed(id, e) ==
                /\ Cardinality(Found(id)) = 1
                /\ ~FirstFragmentParses(e.dir) =>
                      \A j \in Found(id) :
                          /\ foundThreads[j].title = e.name
                          /\ foundThreads[j].totalMessages = 0
                          /\ foundThreads[j].participants = <<>>
        IN  /\ \A e \in DirectoriesOf(archive.inbox) :
                  Listed(InboxName \o <<Slash>> \o e.name, e)
            /\ \A e \in DirectoriesOf(archive.e2ee) :
                  Listed(E2eeName \o <<Slash>> \o e.name, e)
            /\ scannedRoot => \A e \in RootDirectories : Listed(e.name, e)
            /\ Len(foundThreads) =
                   Cardinality(DirectoriesOf(archive.inbox))
                   + Cardinality(DirectoriesOf(archive.e2ee))
                   + (IF scannedRoot THEN Cardinality(RootDirectories) ELSE 0)

C14_Witness ==
    /\ spc = "done"
    /\ archive.inbox.present
    /\ archive.inbox.entries = <<DirEntry(DirA, BadJsonDir), DirEntry(DirB, TitledDir)>>
    /\ \E j \in DOMAIN foundThreads :
        /\ foundThreads[j].id = <<105, 110, 98, 111, 120, 47, 97>>
        /\ foundThreads[j].title = <<97>>
        /\ foundThreads[j].totalMessages = 0

HasSlash(id) == \E i \in 1..Len(id) : id[i] = Slash

\* C15: the directories of the root are taken as conversations only if
\* neither inbox nor e2ee_cutover exists; when one exists, even without
\* conversation directories, no directory of the root is listed.
C15_RootOnlyWithoutGroups ==
    (ScanFinished /\ (archive.inbox.present \/ archive.e2ee.present)) =>
        /\ ~scannedRoot
        /\ \A j \in DOMAIN foundThreads : HasSlash(foundThreads[j].id)

\* C15 as the code has it: the directories of the root are taken as
\* conversations exactly when inbox and e2ee_cutover together hold no
\* directory, whether they exist or not; otherwise only the directories of
\* inbox and e2ee_cutover are listed.
C15_RootWhenNothingFound ==
    ScanFinished =>
        /\ scannedRoot <=>
              (DirectoriesOf(archive.inbox) = {} /\ DirectoriesOf(archive.e2ee) = {})
        /\ scannedRoot =>
              {foundThreads[j].id : j \in DOMAIN foundThreads}
                  = {e.name : e \in RootDirectories}
        /\ ~scannedRoot =>
              \A j \in DOMAIN foundThreads : HasSlash(foundThreads[j].id)

C15_Witness ==
    /\ spc = "done"
    /\ archive.inbox.present
    /\ archive.inbox.entries = <<FileEntry(DirA)>>
    /\ scannedRoot
    /\ \E j \in DOMAIN foundThreads : foundThreads[j].id = InboxName
    /\ \E j \in DOMAIN foundThreads : foundThreads[j].id = DirC

(***************************************************************************)
(* Properties of the application                                           *)
(***************************************************************************)
NoFragmentParses(files) == \A i \in DOMAIN files : files[i].kind # "ok"

\* the entries of threadMetadata for this id
EntriesOf(id) == {j \in DOMAIN threadMetadata : threadMetadata[j].id = id}

\* the list holds the entry the scan makes for a conversation of which no
\* fragment parses: the folder name as title, zero messages
ListedByFolderName(t) ==
    /\ EntriesOf(t) # {}
    /\ \A j \in EntriesOf(t) :
          /\ threadMetadata[j].title = LastSegment(t)
          /\ threadMetadata[j].totalMessages = 0

\* C11: a conversation of which no fragment parsed is still shown with its
\* folder name after it has been loaded: the title of its metadata entry
\* remains the directory name the scan assigned, with zero messages, and
\* the view shows that name and no messages.
C11_TitleRemainsFolderName ==
    [][\A t \in ThreadIds(archive) :
          (NoFragmentParses(FilesOf(archive, t)) /\ ListedByFolderName(t)) =>
              /\ ListedByFolderName(t)'
              /\ \A x \in viewThread' :
                    x.threadId = t =>
                        /\ viewTitle(x) = LastSegment(t)
                        /\ x.messages = <<>>]_vars

\* C13: the metadata entry of a stored conversation holds the values of
\* the complete message set (its number of messages, the timestamp of its
\* last sorted message), in the state addThread leaves and in every later
\* state, however scans and loads interleave.
C13_MetadataRecomputed ==
    \A x \in threads :
        /\ EntriesOf(x.threadId) # {}
        /\ \A j \in EntriesOf(x.threadId) :
              /\ threadMetadata[j].totalMessages = Len(x.messages)
              /\ threadMetadata[j].lastMessageTime = LastTimestamp(x.messages)

\* C18: the worker never handles two PARSE_THREAD requests for the same
\* conversation at once.
C18_OneRequestPerConversation ==
    \A i, j \in DOMAIN requests :
        requests[i].threadId = requests[j].threadId => i = j

\* C19: a PARSE_THREAD request the worker is handling ends only by posting
\* THREAD_PARSED or WORKER_ERROR, also when the user leaves the conversation
\* meanwhile.
C19_NotInterrupted ==
    [][Len(requests') < Len(requests) =>
          /\ channel' # <<>>
          /\ channel'[Len(channel')].type \in {"THREAD_PARSED", "WORKER_ERROR"}]_vars

\* C25: the archive scan is executed once: after a scan has completed the
\* conversation list starts no further scan, whatever the scan found, an
\* empty list of conversations included.
C25_NoScanAfterCompletion ==
    [][scanCompleted => scans'.own <= scans.own]_vars

\* this step is the listener handling the oldest message of the worker
Handled == channel # <<>> /\ channel' = Tail(channel) /\ route' = route

IsTerminal(message) == message.type \in {"THREAD_PARSED", "WORKER_ERROR"}

\* C26: when the THREAD_PARSED or the WORKER_ERROR of a conversation has been
\* handled, its loading flag and its parse-progress entry are cleared, for
\* every number of fragments, zero included, and for failures part-way.
C26_ClearedOnCompletion ==
    [][(Handled /\ IsTerminal(Head(channel))) =>
          /\ Head(channel).threadId \notin threadLoadingStates'
          /\ \A x \in parseProgress' : x.threadId # Head(channel).threadId]_vars

\* an assemble of t is running, or its terminal message waits for the listener
InFlight(t) ==
    \/ \E i \in DOMAIN requests : requests[i].threadId = t
    \/ \E i \in DOMAIN channel : IsTerminal(channel[i]) /\ channel[i].threadId = t

\* C28: in every reachable state, a conversation whose loading flag is set
\* has an assemble in flight or a terminal message still to be delivered, so
\* a conversation marked loading is never stuck in the loading state.
C28_LoadingIsInFlight == \A t \in threadLoadingStates : InFlight(t)

\* the conversations of the loaded store
LoadedIds == {x.threadId : x \in threads}

RequestsFor(reqs, t) == {i \in DOMAIN reqs : reqs[i].threadId = t}

\* C30: a conversation of the loaded store is not parsed again: opening it
\* issues no PARSE_THREAD and does not set its loading flag; and the store
\* changes only by the entry of a conversation being replaced wholesale
\* with the data of a THREAD_PARSED.
C30_LoadedNotParsedAgain ==
    [][/\ \A t \in LoadedIds :
            /\ t \in threadLoadingStates' => t \in threadLoadingStates
            /\ Cardinality(RequestsFor(requests', t))
                  <= Cardinality(RequestsFor(requests, t))
       /\ threads' # threads =>
            /\ Handled
            /\ Head(channel).type = "THREAD_PARSED"
            /\ threads' = {x \in threads : x.threadId # Head(channel).threadId}
                              \cup {Head(channel).data}
            /\ Head(channel).data.threadId = Head(channel).threadId]_vars

\* the view of a conversation of the loaded store has just been mounted
C30_Witness ==
    /\ route \in LoadedIds
    /\ viewThread = {}
    /\ effectDue
    /\ requests = <<>>
    /\ route \notin threadLoadingStates

\* the effect of that view has run: the stored thread is shown, nothing loads
C30_WitnessShown ==
    /\ route \in LoadedIds
    /\ Cardinality(LoadedIds) = 2
    /\ viewThread = getThread(threads, route)
    /\ ~effectDue
    /\ requests = <<>>
    /\ threadLoadingStates = {}

(***************************************************************************)
(* Properties of the collecting loop of parseThreadDirectory               *)
(***************************************************************************)
IsDigit(c) == c >= 48 /\ c <= 57

\* "message_", one or more digits, ".json"
IsNumberedName(n) ==
    /\ Len(n) > Len(MessagePrefix) + Len(JsonExtension)
    /\ SubSeq(n, 1, Len(MessagePrefix)) = MessagePrefix
    /\ SubSeq(n, Len(n) - Len(JsonExtension) + 1, Len(n)) = JsonExtension
    /\ \A i \in (Len(MessagePrefix) + 1)..(Len(n) - Len(JsonExtension)) : IsDigit(n[i])

\* starts with "message_" and ends with ".json", whatever stands between
HasPrefixAndExtension(n) ==
    /\ Len(n) >= Len(MessagePrefix) + Len(JsonExtension)
    /\ SubSeq(n, 1, Len(MessagePrefix)) = MessagePrefix
    /\ SubSeq(n, Len(n) - Len(JsonExtension) + 1, Len(n)) = JsonExtension

EntrySet(l) == {l[i] : i \in DOMAIN l}

\* every listed entry that satisfies Wanted is parsed, once, nothing else is,
\* and the progress total is their number
ParsesExactly(Wanted(_)) ==
    LET wanted == {e \in EntrySet(dirEntries) : Wanted(e)} IN
    /\ EntrySet(parsedEntries) = wanted
    /\ Len(parsedEntries) = Cardinality(wanted)
    /\ totalListed = Cardinality(wanted)
    /\ \A i \in DOMAIN progressPosts : progressPosts[i].total = Cardinality(wanted)

\* C24: assemble parses exactly the entries of the conversation directory
\* that are files named "message_", a numeric suffix, ".json"; directories
\* and files whose suffix is not numeric are neither parsed nor counted in
\* the progress total.
C24_OnlyNumberedFragments ==
    lpc = "done" =>
        ParsesExactly(LAMBDA e : e.kind = "file" /\ IsNumberedName(e.name))

\* C24, amended: assemble parses exactly the entries that are files whose
\* name starts with "message_" and ends with ".json", whatever stands
\* between; directories and files of other names are neither parsed nor
\* counted in the progress total.
C24_PrefixAndExtension ==
    lpc = "done" =>
        ParsesExactly(LAMBDA e : e.kind = "file" /\ HasPrefixAndExtension(e.name))

C24_Witness ==
    /\ lpc = "done"
    /\ dirEntries = <<FragmentX, FragmentNamedDirectory, Fragment1>>
    /\ parsedEntries = <<FragmentX, Fragment1>>
    /\ totalListed = 2

====
